---- MODULE Spec2Model ----
(***************************************************************************)
(* Model of sentry_github.plugin.GitHubPlugin: the request/response        *)
(* pipeline of the GitHub issue plugin (assignee list, issue creation,     *)
(* issue linking, title lookup, autocomplete search).                      *)
(*                                                                         *)
(* State: the host's option store (project -> repo), the host's identity   *)
(* store (user -> access token) and the record of the most recent handler  *)
(* invocation (its inputs, the HTTP requests it issued, the messages it    *)
(* reported through handle_api_error and its outcome).                     *)
(*                                                                         *)
(* Python strings are TLA+ strings; '%s' formatting is \o.  Python None    *)
(* in a string-typed position is the value None below; str(None) is the    *)
(* four letters "None", as in Python.                                      *)
(***************************************************************************)
EXTENDS Integers, Sequences, FiniteSets, TLC

VARIABLES options, tokens, last

vars == <<options, tokens, last>>

\* Longest JSON array the forge answers with in this model.
MaxItems == 1

-----------------------------------------------------------------------------
(* Values *)

None == "<None>"

Users == {"alice"}
Projects == {"p1"}
RepoValues == {None, "", "acme/widgets", "octo/cat"}
TokenValues == {None, "tok-a"}
IssueIds == {"42"}
Titles == {"Bug"}
Descriptions == {"Steps..."}
Assignees == {None, "bob"}
Comments == {None, "", "http://sentry/g/1"}
Fields == {"issue_id", "other"}
Queries == {None, "", "crash"}
Statuses == {200, 399, 400}

\* bool(v) for a string-or-None value
Truthy(v) == v # None /\ v # ""

\* '%s' % v for a string-or-None value
Str(v) == IF v = None THEN "None" ELSE v

\* JSON documents.  An object is the set of keys it has (keys) and their
\* values (f; a key that is absent holds a placeholder that is never read);
\* an array is the sequence of its elements (a); t = "text" is a body that
\* is not JSON.
NoFields == [message |-> "", number |-> 0, title |-> "", items |-> <<>>, login |-> ""]
JObj(keys, f) == [t |-> "obj", keys |-> keys, f |-> f, a |-> <<>>]
JArr(s) == [t |-> "arr", keys |-> {}, f |-> NoFields, a |-> s]
NotJson == [t |-> "text", keys |-> {}, f |-> NoFields, a |-> <<>>]
EmptyObj == JObj({}, NoFields)

SeqsUpTo(S, n) == UNION {[1..k -> S] : k \in 0..n}

UserElems == {JObj({"login"}, [NoFields EXCEPT !.login = "bob"]), EmptyObj}
IssueElems ==
    {JObj({"number", "title"},
          [NoFields EXCEPT !.number = 7, !.title = "Crash on load"]),
     EmptyObj}

\* Bodies the forge (or anything between it and the host) may answer with.
Bodies ==
    {NotJson, EmptyObj,
     JObj({"message"}, [NoFields EXCEPT !.message = "Validation Failed"]),
     JObj({"number"}, [NoFields EXCEPT !.number = 42]),
     JObj({"title"}, [NoFields EXCEPT !.title = "Crash on load"])}
    \cup {JArr(s) : s \in SeqsUpTo(UserElems, MaxItems)}
    \cup {JObj({"items"}, [NoFields EXCEPT !.items = s]) :
             s \in SeqsUpTo(IssueElems, MaxItems)}

\* What happens on the wire when a request is sent: a transport failure
\* (requests.RequestException) or a reply with a status and a body.
Wires ==
    {[net |-> "error", msg |-> "Connection timed out"]}
    \cup {[net |-> "ok", status |-> s, body |-> b] : s \in Statuses, b \in Bodies}

\* Python values a handler returns
PyNone == [py |-> "None"]
PyInt(n) == [py |-> "int", int |-> n]
PyStr(x) == [py |-> "str", str |-> x]
PyTuple(x) == [py |-> "tuple", items |-> x]

Return(v) == [kind |-> "return", value |-> v]
Raise(exc, msg) == [kind |-> "raise", exc |-> exc, msg |-> msg]

\* Result of a handler: requests issued, messages reported, outcome.
Result(http, errors, outcome) ==
    [http |-> http, errors |-> errors, outcome |-> outcome]

-----------------------------------------------------------------------------
(* Host services used by the plugin *)

get_option(opts, key, project) == opts[project]

get_auth_for_user(toks, user) == toks[user]

\* _('Error communicating with GitHub: %s') % error
CommunicatingMsg(error) == "Error communicating with GitHub: " \o error

\* handle_api_error: the message added to the request's messages
handle_api_error(error) == CommunicatingMsg(error)

\* quote_plus of one piece of text; urlencode works character by
\* character, so the encoding of a concatenation is the concatenation of
\* the encodings.
quote_plus(a) ==
    CASE a = "repo:" -> "repo%3A"
      [] a = " " -> "+"
      [] a = "acme/widgets" -> "acme%2Fwidgets"
      [] a = "octo/cat" -> "octo%2Fcat"
      [] OTHER -> a

RECURSIVE QuoteAll(_)
QuoteAll(pieces) ==
    IF pieces = <<>> THEN ""
    ELSE quote_plus(Head(pieces)) \o QuoteAll(Tail(pieces))

\* urlencode of a one-entry dict {key: value}, value given in pieces
urlencode(key, pieces) == quote_plus(key) \o "=" \o QuoteAll(pieces)

\* json.loads(body)
json_loads(body) ==
    IF body.t = "text"
    THEN [ok |-> FALSE, msg |-> "No JSON object could be decoded"]
    ELSE [ok |-> TRUE, value |-> body]

\* d[key] on a decoded document: a list raises TypeError, a dict without
\* the key raises KeyError.
Subscript(doc, key) ==
    IF doc.t = "arr"
    THEN [ok |-> FALSE, exc |-> "TypeError", msg |-> "list indices must be integers, not str"]
    ELSE IF key \in doc.keys
         THEN [ok |-> TRUE, value |-> doc.f[key]]
         ELSE [ok |-> FALSE, exc |-> "KeyError", msg |-> key]

\* d.get(key, default) on a decoded document: a list has no .get
DictGet(doc, key, default) ==
    IF doc.t = "arr"
    THEN [ok |-> FALSE, exc |-> "AttributeError", msg |-> "'list' object has no attribute 'get'"]
    ELSE [ok |-> TRUE, value |-> IF key \in doc.keys THEN doc.f[key] ELSE default]

-----------------------------------------------------------------------------
(* The plugin *)

is_configured(opts, project) == Truthy(get_option(opts, "repo", project))

\* query_params is None (NoParams) or a one-entry dict <<key, pieces>>
NoParams == <<>>

\* Variant: the repository name is remembered instead of being read from
\* the option store on every call.
build_api_url_cached(opts, project, github_api, query_params) ==
    LET repo == "acme/widgets"
        url == "https://api.github.com/repos/" \o Str(repo) \o "/" \o github_api
    IN  IF query_params # NoParams
        THEN url \o "?" \o urlencode(query_params[1], query_params[2])
        ELSE url

build_api_url(opts, project, github_api, query_params) ==
    LET repo == get_option(opts, "repo", project)
        url == "https://api.github.com/repos/" \o Str(repo) \o "/" \o github_api
    IN  IF query_params # NoParams
        THEN url \o "?" \o urlencode(query_params[1], query_params[2])
        ELSE url

\* json_data=None
JsonNone == [none |-> TRUE]

\* safe_urlread(req)
safe_urlread(req) == req.body

\* safe_urlopen(url, json=json_data, headers=req_headers, allow_redirects=True)
\* sends one request; the wire decides what comes back.  sent is the log of
\* exchanges: the request and what the wire answered to it.
safe_urlopen(url, json_data, headers, wire) ==
    [sent |-> <<[url |-> url, json |-> json_data, headers |-> headers,
                 reply |-> wire]>>,
     ok |-> wire.net = "ok",
     exc |-> "RequestException",
     msg |-> IF wire.net = "ok" THEN "" ELSE wire.msg,
     req |-> wire]

\* Variant: the credential check is missing and the request goes out
\* with whatever the identity store holds.
make_api_request_unchecked(toks, user, url, json_data, wire) ==
    safe_urlopen(url, json_data,
                 [Authorization |-> "token " \o Str(get_auth_for_user(toks, user))],
                 wire)

\* Variant: a transport failure is retried once.
make_api_request_retry(toks, user, url, json_data, wire) ==
    LET auth == get_auth_for_user(toks, user)
        r == safe_urlopen(url, json_data, [Authorization |-> "token " \o Str(auth)], wire)
    IN  IF auth = None
        THEN [sent |-> <<>>, ok |-> FALSE, exc |-> "ValidationError",
              msg |-> "You have not yet associated GitHub with your account.",
              req |-> wire]
        ELSE IF r.ok THEN r ELSE [r EXCEPT !.sent = r.sent \o r.sent]

make_api_request(toks, user, url, json_data, wire) ==
    LET auth == get_auth_for_user(toks, user)
    IN  IF auth = None
        THEN [sent |-> <<>>, ok |-> FALSE, exc |-> "ValidationError",
              msg |-> "You have not yet associated GitHub with your account.",
              req |-> wire]
        ELSE safe_urlopen(url, json_data,
                          [Authorization |-> "token " \o auth], wire)

\* tuple((u['login'], u['login']) for u in json_resp)
Logins(doc) ==
    IF doc.t = "obj"
    THEN IF doc.keys = {}
         THEN [ok |-> TRUE, value |-> <<>>]
         ELSE [ok |-> FALSE, exc |-> "TypeError",
               msg |-> "string indices must be integers, not str"]
    ELSE IF \A i \in DOMAIN doc.a : "login" \in doc.a[i].keys
         THEN [ok |-> TRUE,
               value |-> [i \in DOMAIN doc.a |->
                            <<doc.a[i].f.login, doc.a[i].f.login>>]]
         ELSE [ok |-> FALSE, exc |-> "KeyError", msg |-> "login"]

get_allowed_assignees(opts, toks, user, project, wire) ==
    LET url == build_api_url(opts, project, "assignees", NoParams)
        r == make_api_request(toks, user, url, JsonNone, wire)
    IN  IF ~r.ok
        THEN IF r.exc = "RequestException"
             THEN Result(r.sent, <<handle_api_error(r.msg)>>, Return(PyTuple(<<>>)))
             ELSE Result(r.sent, <<>>, Raise(r.exc, r.msg))
        ELSE LET p == json_loads(safe_urlread(r.req))
             IN  IF ~p.ok
                 THEN Result(r.sent, <<handle_api_error(p.msg)>>, Return(PyTuple(<<>>)))
                 ELSE IF r.req.status > 399
                      THEN LET m == DictGet(p.value, "message", "")
                           IN  IF ~m.ok
                               THEN Result(r.sent, <<>>, Raise(m.exc, m.msg))
                               ELSE Result(r.sent, <<handle_api_error(m.value)>>,
                                           Return(PyTuple(<<>>)))
                      ELSE LET users == Logins(p.value)
                           IN  IF ~users.ok
                               THEN Result(r.sent, <<>>, Raise(users.exc, users.msg))
                               ELSE Result(r.sent, <<>>,
                                           Return(PyTuple(<<<<"", "Unassigned">>>> \o users.value)))

\* Variant: the status of the reply is not looked at.
create_issue_any_status(opts, toks, user, project, form_data, wire) ==
    LET json_data == [title |-> form_data.title,
                      body |-> form_data.description,
                      assignee |-> form_data.assignee]
        url == build_api_url(opts, project, "issues", NoParams)
        r == make_api_request(toks, user, url, json_data, wire)
    IN  IF ~r.ok
        THEN IF r.exc = "RequestException"
             THEN Result(r.sent, <<>>, Raise("ValidationError", CommunicatingMsg(r.msg)))
             ELSE Result(r.sent, <<>>, Raise(r.exc, r.msg))
        ELSE LET p == json_loads(safe_urlread(r.req))
             IN  IF ~p.ok
                 THEN Result(r.sent, <<>>, Raise("ValidationError", CommunicatingMsg(p.msg)))
                 ELSE IF FALSE
                      THEN LET m == Subscript(p.value, "message")
                           IN  IF ~m.ok
                               THEN Result(r.sent, <<>>, Raise(m.exc, m.msg))
                               ELSE Result(r.sent, <<>>, Raise("ValidationError", m.value))
                      ELSE LET n == Subscript(p.value, "number")
                           IN  IF ~n.ok
                               THEN Result(r.sent, <<>>, Raise(n.exc, n.msg))
                               ELSE Result(r.sent, <<>>, Return(PyInt(n.value)))

create_issue(opts, toks, user, project, form_data, wire) ==
    LET json_data == [title |-> form_data.title,
                      body |-> form_data.description,
                      assignee |-> form_data.assignee]
        url == build_api_url(opts, project, "issues", NoParams)
        r == make_api_request(toks, user, url, json_data, wire)
    IN  IF ~r.ok
        THEN IF r.exc = "RequestException"
             THEN Result(r.sent, <<>>, Raise("ValidationError", CommunicatingMsg(r.msg)))
             ELSE Result(r.sent, <<>>, Raise(r.exc, r.msg))
        ELSE LET p == json_loads(safe_urlread(r.req))
             IN  IF ~p.ok
                 THEN Result(r.sent, <<>>, Raise("ValidationError", CommunicatingMsg(p.msg)))
                 ELSE IF r.req.status > 399
                      THEN LET m == Subscript(p.value, "message")
                           IN  IF ~m.ok
                               THEN Result(r.sent, <<>>, Raise(m.exc, m.msg))
                               ELSE Result(r.sent, <<>>, Raise("ValidationError", m.value))
                      ELSE LET n == Subscript(p.value, "number")
                           IN  IF ~n.ok
                               THEN Result(r.sent, <<>>, Raise(n.exc, n.msg))
                               ELSE Result(r.sent, <<>>, Return(PyInt(n.value)))

\* link_issue after its early return: post the comment
post_comment(opts, toks, user, project, form_data, wire) ==
    LET comment == form_data.comment
        url == build_api_url(opts, project, "issues", NoParams)
               \o "/" \o form_data.issue_id \o "/comments"
        r == make_api_request(toks, user, url, [body |-> comment], wire)
    IN  IF ~r.ok
        THEN IF r.exc = "RequestException"
             THEN Result(r.sent, <<>>, Raise("ValidationError", CommunicatingMsg(r.msg)))
             ELSE Result(r.sent, <<>>, Raise(r.exc, r.msg))
        ELSE LET p == json_loads(safe_urlread(r.req))
             IN  IF ~p.ok
                 THEN Result(r.sent, <<>>,
                             Raise("ValidationError", CommunicatingMsg(p.msg)))
                 ELSE IF r.req.status > 399
                      THEN LET m == Subscript(p.value, "message")
                           IN  IF ~m.ok
                               THEN Result(r.sent, <<>>, Raise(m.exc, m.msg))
                               ELSE Result(r.sent, <<>>,
                                           Raise("ValidationError", m.value))
                      ELSE Result(r.sent, <<>>, Return(PyNone))

\* Variant: only an absent comment is skipped, an empty one is posted.
link_issue_skip_absent(opts, toks, user, project, form_data, wire) ==
    IF form_data.comment = None
    THEN Result(<<>>, <<>>, Return(PyNone))
    ELSE post_comment(opts, toks, user, project, form_data, wire)

link_issue(opts, toks, user, project, form_data, wire) ==
    LET comment == form_data.comment
    IN  IF ~Truthy(comment)
        THEN Result(<<>>, <<>>, Return(PyNone))
        ELSE post_comment(opts, toks, user, project, form_data, wire)

get_issue_url(opts, project, issue_id) ==
    LET repo == get_option(opts, "repo", project)
    IN  "https://github.com/" \o Str(repo) \o "/issues/" \o issue_id

get_issue_title_by_id(opts, toks, user, project, issue_id, wire) ==
    LET url == build_api_url(opts, project, "issues", NoParams)
               \o "/" \o issue_id
        r == make_api_request(toks, user, url, JsonNone, wire)
    IN  IF ~r.ok
        THEN Result(r.sent, <<>>, Raise(r.exc, r.msg))
        ELSE LET p == json_loads(safe_urlread(r.req))
             IN  IF ~p.ok
                 THEN Result(r.sent, <<>>, Raise("ValueError", p.msg))
                 ELSE LET t == Subscript(p.value, "title")
                      IN  IF ~t.ok
                          THEN Result(r.sent, <<>>, Raise(t.exc, t.msg))
                          ELSE Result(r.sent, <<>>, Return(PyStr(t.value)))

\* Response(data) and JSONResponse(data, status_code=...)
\* data is a dict with at most one key, holding a list: {} is
\* <<>>, {key: list} is <<key, list>>.
Response(data) == [py |-> "Response", status |-> 200, data |-> data]
JSONResponse(data, status_code) ==
    [py |-> "JSONResponse", status |-> status_code, data |-> data]

\* [{'text': '(#%s) %s' % (i['number'], i['title']), 'id': i['number']} for i in items]
IssueEntries(items) ==
    IF \E i \in DOMAIN items : "number" \notin items[i].keys
    THEN [ok |-> FALSE, exc |-> "KeyError", msg |-> "number"]
    ELSE IF \E i \in DOMAIN items : "title" \notin items[i].keys
    THEN [ok |-> FALSE, exc |-> "KeyError", msg |-> "title"]
    ELSE [ok |-> TRUE,
          value |-> [i \in DOMAIN items |->
                       [text |-> "(#" \o ToString(items[i].f.number) \o ") "
                                 \o items[i].f.title,
                        id |-> items[i].f.number]]]

\* view_autocomplete after its early return: search the repository
search_issues(opts, toks, user, project, field, query, wire) ==
    LET repo == get_option(opts, "repo", project)
        url == "https://api.github.com/search/issues?"
               \o urlencode("q", <<"repo:", Str(repo), " ", query>>)
        r == make_api_request(toks, user, url, JsonNone, wire)
    IN  IF ~r.ok
        THEN IF r.exc = "RequestException"
             THEN Result(r.sent, <<handle_api_error(r.msg)>>,
                         Return(JSONResponse(<<>>, 502)))
             ELSE Result(r.sent, <<>>, Raise(r.exc, r.msg))
        ELSE LET p == json_loads(safe_urlread(r.req))
             IN  IF ~p.ok
                 THEN Result(r.sent, <<handle_api_error(p.msg)>>,
                             Return(JSONResponse(<<>>, 502)))
                 ELSE LET items == DictGet(p.value, "items", <<>>)
                      IN  IF ~items.ok
                          THEN Result(r.sent, <<>>, Raise(items.exc, items.msg))
                          ELSE LET issues == IssueEntries(items.value)
                               IN  IF ~issues.ok
                                   THEN Result(r.sent, <<>>,
                                               Raise(issues.exc, issues.msg))
                                   ELSE Result(r.sent, <<>>,
                                               Return(Response(<<field, issues.value>>)))

\* Variant: only an absent query is answered without a search.
view_autocomplete_skip_absent(opts, toks, user, project, field, query, wire) ==
    IF field # "issue_id" \/ query = None
    THEN Result(<<>>, <<>>, Return(Response(<<"issues", <<>>>>)))
    ELSE search_issues(opts, toks, user, project, field, query, wire)

view_autocomplete(opts, toks, user, project, field, query, wire) ==
    IF field # "issue_id" \/ ~Truthy(query)
    THEN Result(<<>>, <<>>, Return(Response(<<"issues", <<>>>>)))
    ELSE search_issues(opts, toks, user, project, field, query, wire)

-----------------------------------------------------------------------------
(* The host: it stores options and identities and invokes the handlers *)

NoArgs ==
    [title |-> None, description |-> None, assignee |-> None, comment |-> None,
     issue_id |-> None, autocomplete_field |-> None, autocomplete_query |-> None]

Call(op, user, project, args, res) ==
    [op |-> op, user |-> user, project |-> project, args |-> args,
     http |-> res.http, errors |-> res.errors, outcome |-> res.outcome]

Init ==
    /\ options = [p \in Projects |-> None]
    /\ tokens = [u \in Users |-> None]
    /\ last = Call("none", None, None, NoArgs, Result(<<>>, <<>>, Return(PyNone)))

\* A project administrator saves the configuration form (field 'repo').
SetOption ==
    \E p \in Projects, v \in RepoValues :
        /\ v # options[p]
        /\ options' = [options EXCEPT ![p] = v]
        /\ UNCHANGED <<tokens, last>>

\* The user links or unlinks the GitHub identity (auth_provider = 'github').
SetIdentity ==
    \E u \in Users, t \in TokenValues :
        /\ t # tokens[u]
        /\ tokens' = [tokens EXCEPT ![u] = t]
        /\ UNCHANGED <<options, last>>

GetAllowedAssignees ==
    \E u \in Users, p \in Projects, w \in Wires :
        /\ last' = Call("get_allowed_assignees", u, p, NoArgs,
                        get_allowed_assignees(options, tokens, u, p, w))
        /\ UNCHANGED <<options, tokens>>

CreateIssue ==
    \E u \in Users, p \in Projects, w \in Wires,
       t \in Titles, d \in Descriptions, a \in Assignees :
        LET form_data == [title |-> t, description |-> d, assignee |-> a]
        IN  /\ last' = Call("create_issue", u, p,
                            [NoArgs EXCEPT !.title = t, !.description = d,
                                           !.assignee = a],
                            create_issue(options, tokens, u, p, form_data, w))
            /\ UNCHANGED <<options, tokens>>

LinkIssue ==
    \E u \in Users, p \in Projects, w \in Wires,
       c \in Comments, n \in IssueIds :
        LET form_data == [comment |-> c, issue_id |-> n]
        IN  /\ last' = Call("link_issue", u, p,
                            [NoArgs EXCEPT !.comment = c, !.issue_id = n],
                            link_issue(options, tokens, u, p, form_data, w))
            /\ UNCHANGED <<options, tokens>>

GetIssueUrl ==
    \E p \in Projects, n \in IssueIds :
        /\ last' = Call("get_issue_url", None, p, [NoArgs EXCEPT !.issue_id = n],
                        Result(<<>>, <<>>,
                               Return(PyStr(get_issue_url(options, p, n)))))
        /\ UNCHANGED <<options, tokens>>

GetIssueTitleById ==
    \E u \in Users, p \in Projects, w \in Wires, n \in IssueIds :
        /\ last' = Call("get_issue_title_by_id", u, p, [NoArgs EXCEPT !.issue_id = n],
                        get_issue_title_by_id(options, tokens, u, p, n, w))
        /\ UNCHANGED <<options, tokens>>

ViewAutocomplete ==
    \E u \in Users, p \in Projects, w \in Wires,
       f \in Fields, q \in Queries :
        /\ last' = Call("view_autocomplete", u, p,
                        [NoArgs EXCEPT !.autocomplete_field = f,
                                       !.autocomplete_query = q],
                        view_autocomplete(options, tokens, u, p, f, q, w))
        /\ UNCHANGED <<options, tokens>>

Next ==
    \/ SetOption
    \/ SetIdentity
    \/ GetAllowedAssignees
    \/ CreateIssue
    \/ LinkIssue
    \/ GetIssueUrl
    \/ GetIssueTitleById
    \/ ViewAutocomplete

Spec == Init /\ [][Next]_vars

-----------------------------------------------------------------------------
(* Properties *)

\* A step of a handler: SetOption and SetIdentity always change their store,
\* so a step that leaves both stores alone is an invocation, and last' is
\* its record.
Invoked == options' = options /\ tokens' = tokens

AuthMsg == "You have not yet associated GitHub with your account."

\* The invocation failed with the authentication-required validation error
\* without sending anything.
AuthRequired(c) ==
    /\ c.http = <<>>
    /\ c.errors = <<>>
    /\ c.outcome.kind = "raise"
    /\ c.outcome.exc = "ValidationError"
    /\ c.outcome.msg = AuthMsg

\* The stages at which the reply to a request can fail.  A status failure
\* is the forge's error reply: a JSON object, with or without a `message`,
\* sent with a status > 399.
NetworkFailed(w) == w.net = "error"
ParseFailed(w) == w.net = "ok" /\ w.body.t = "text"
StatusFailed(w) == w.net = "ok" /\ w.body.t = "obj" /\ w.status > 399
Failed(w) == NetworkFailed(w) \/ ParseFailed(w) \/ StatusFailed(w)

\* The `message` of a decoded body, or the empty string
ForgeMessage(w) ==
    IF "message" \in w.body.keys THEN w.body.f.message ELSE ""

\* An empty tuple of assignees, or a response that lists no issue
EmptyResult(v) ==
    \/ v.py = "tuple" /\ v.items = <<>>
    \/ v.py \in {"Response", "JSONResponse"} /\ (v.data = <<>> \/ v.data[2] = <<>>)

\* The invocation sent a request and this is what came back
Sent(c) == c.http # <<>>
Reply(c) == c.http[1].reply

\* Is this invocation one of the operations that needs a credential?
NeedsCredentialAsClaimed(c) ==
    \/ c.op \in {"get_allowed_assignees", "create_issue", "get_issue_title_by_id"}
    \/ c.op = "link_issue" /\ Truthy(c.args.comment)
    \/ c.op = "view_autocomplete" /\ Truthy(c.args.autocomplete_query)

NeedsCredential(c) ==
    \/ c.op \in {"get_allowed_assignees", "create_issue", "get_issue_title_by_id"}
    \/ c.op = "link_issue" /\ Truthy(c.args.comment)
    \/ /\ c.op = "view_autocomplete"
       /\ c.args.autocomplete_field = "issue_id"
       /\ Truthy(c.args.autocomplete_query)

\* C1 as stated: for a user with no stored credential every authenticated
\* operation (search: any call with a non-empty query) fails with the
\* authentication-required validation error and sends no request.
C1_AsStated ==
    [][(Invoked /\ NeedsCredentialAsClaimed(last') /\ tokens[last'.user] = None)
          => AuthRequired(last')]_vars

\* C1 amended: the same, where a search is a call with autocomplete_field
\* 'issue_id' and a non-empty query.
C1_NoCredentialFailsFast ==
    [][(Invoked /\ NeedsCredential(last') /\ tokens[last'.user] = None)
          => AuthRequired(last')]_vars

C1_Witness ==
    /\ last.op = "view_autocomplete"
    /\ last.args.autocomplete_field = "issue_id"
    /\ last.args.autocomplete_query = "crash"
    /\ tokens[last.user] = None
    /\ AuthRequired(last)

\* C2: in get_allowed_assignees and view_autocomplete a failure at the
\* network, parse or status stage yields an empty result, exactly one call
\* of handle_api_error, and no exception.
C2_ReadsSwallowFailures ==
    (last.op \in {"get_allowed_assignees", "view_autocomplete"}
       /\ Sent(last) /\ Failed(Reply(last)))
    => /\ last.outcome.kind = "return"
       /\ EmptyResult(last.outcome.value)
       /\ Len(last.errors) = 1

\* C3: in create_issue and link_issue a failure at the network, parse or
\* status stage raises a validation error and nothing else; a `message` in
\* the decoded body is the message of the error.
C3_WritesRaiseValidationError ==
    (last.op \in {"create_issue", "link_issue"}
       /\ Sent(last) /\ Failed(Reply(last)))
    => /\ last.outcome.kind = "raise"
       /\ last.outcome.exc = "ValidationError"
       /\ (StatusFailed(Reply(last)) /\ "message" \in Reply(last).body.keys)
          => last.outcome.msg = Reply(last).body.f.message

\* The invocation ended in a success result: it returned and reported nothing.
Success(c) == c.outcome.kind = "return" /\ c.errors = <<>>

\* The invocation failed with the forge's message: reported once by the two
\* operations that swallow errors, raised by the others.
ForgeError(c, msg) ==
    IF c.op \in {"get_allowed_assignees", "view_autocomplete"}
    THEN /\ c.outcome.kind = "return"
         /\ EmptyResult(c.outcome.value)
         /\ c.errors = <<handle_api_error(msg)>>
    ELSE /\ c.outcome.kind = "raise"
         /\ c.outcome.msg = msg

\* C4: all five operations decode a reply the same way: a body that is not
\* JSON is a failure whatever the status, a JSON body with status > 399 is
\* a forge error carrying the body's `message` or the empty string, and
\* only a JSON body with status <= 399 becomes a success result.
C4_UniformDecoding ==
    (last.op \in {"get_allowed_assignees", "create_issue", "link_issue",
                  "get_issue_title_by_id", "view_autocomplete"}
       /\ Sent(last) /\ Reply(last).net = "ok")
    => /\ ParseFailed(Reply(last)) => ~Success(last)
       /\ StatusFailed(Reply(last)) => ForgeError(last, ForgeMessage(Reply(last)))
       /\ Success(last) => (Reply(last).body.t # "text" /\ Reply(last).status <= 399)

\* C5: when the project's repo option is empty or None, the operations
\* that build their URL with build_api_url send no request, and fail with
\* a configuration error (for a user without a credential the error may be
\* the authentication one, which C1 asks for).
C5_UnconfiguredFails ==
    [][(/\ Invoked
        /\ \/ last'.op \in {"get_allowed_assignees", "create_issue",
                             "get_issue_title_by_id"}
           \/ last'.op = "link_issue" /\ Truthy(last'.args.comment)
        /\ ~is_configured(options, last'.project))
          => /\ last'.http = <<>>
             /\ tokens[last'.user] # None
                  => /\ last'.outcome.kind = "raise"
                     /\ last'.outcome.exc = "ConfigurationError"]_vars

\* C6: link_issue with an empty or absent comment sends no request and
\* returns normally, whoever the user is.
C6_LinkWithoutComment ==
    (last.op = "link_issue" /\ last.args.comment \in {None, ""})
    => /\ last.http = <<>>
       /\ last.outcome = Return(PyNone)

C6_Witness ==
    /\ last.op = "link_issue"
    /\ last.args.comment = ""
    /\ tokens[last.user] = None
    /\ last.http = <<>>
    /\ last.outcome.kind = "return"

\* C7: view_autocomplete with an empty or absent query sends no request,
\* reports no error and returns an empty result.
C7_SearchWithoutQuery ==
    (last.op = "view_autocomplete" /\ last.args.autocomplete_query \in {None, ""})
    => /\ last.http = <<>>
       /\ last.errors = <<>>
       /\ last.outcome.kind = "return"
       /\ EmptyResult(last.outcome.value)

C7_Witness ==
    /\ last.op = "view_autocomplete"
    /\ last.args.autocomplete_field = "issue_id"
    /\ last.args.autocomplete_query = ""
    /\ tokens[last.user] # None
    /\ last.http = <<>>
    /\ last.outcome.kind = "return"

\* C8: an invocation sends at most one request, on every path.
C8_AtMostOneRequest == Len(last.http) <= 1

C8_Witness ==
    /\ last.op = "create_issue"
    /\ Len(last.http) = 1
    /\ NetworkFailed(Reply(last))
    /\ last.outcome.kind = "raise"

\* The URL an invocation has to request, given the repo option as stored.
ExpectedUrl(c, repo) ==
    CASE c.op = "get_allowed_assignees" ->
           "https://api.github.com/repos/" \o Str(repo) \o "/assignees"
      [] c.op = "create_issue" ->
           "https://api.github.com/repos/" \o Str(repo) \o "/issues"
      [] c.op = "link_issue" ->
           "https://api.github.com/repos/" \o Str(repo) \o "/issues/"
             \o c.args.issue_id \o "/comments"
      [] c.op = "get_issue_title_by_id" ->
           "https://api.github.com/repos/" \o Str(repo) \o "/issues/"
             \o c.args.issue_id
      [] c.op = "view_autocomplete" ->
           "https://api.github.com/search/issues?q=repo%3A"
             \o quote_plus(Str(repo)) \o "+" \o c.args.autocomplete_query
      [] OTHER -> ""

\* C9: an invocation leaves both stores alone, and every URL it requests
\* (or returns, for get_issue_url) holds the repo option as stored when it
\* runs.
C9_RepoReadFresh ==
    [][(last' # last)
          => /\ options' = options
             /\ tokens' = tokens
             /\ \A i \in DOMAIN last'.http :
                   last'.http[i].url = ExpectedUrl(last', options[last'.project])
             /\ last'.op = "get_issue_url"
                  => last'.outcome.value.str =
                       "https://github.com/" \o Str(options[last'.project])
                         \o "/issues/" \o last'.args.issue_id]_vars

C9_Witness ==
    /\ last.op = "get_allowed_assignees"
    /\ options[last.project] = "octo/cat"
    /\ Sent(last)
    /\ last.http[1].url = "https://api.github.com/repos/octo/cat/assignees"

\* What create_issue has to send for a configured repository
CreateRequestOk(c, repo) ==
    /\ Len(c.http) = 1
    /\ c.http[1].url = "https://api.github.com/repos/" \o repo \o "/issues"
    /\ c.http[1].json = [title |-> c.args.title, body |-> c.args.description,
                         assignee |-> c.args.assignee]

ReturnedNumber(c) == c.outcome.kind = "return" /\ c.outcome.value.py = "int"

\* C10 as stated: for a configured repository and a user with a
\* credential create_issue sends one request with the form's fields to the
\* issues endpoint, and returns the reply's number if and only if the
\* request got through, the body is JSON and the status is <= 399.
C10_AsStated ==
    [][(/\ Invoked
        /\ last'.op = "create_issue"
        /\ is_configured(options, last'.project)
        /\ tokens[last'.user] # None)
          => /\ CreateRequestOk(last', options[last'.project])
             /\ ReturnedNumber(last')
                  <=> /\ Reply(last').net = "ok"
                      /\ Reply(last').body.t # "text"
                      /\ Reply(last').status <= 399
             /\ ReturnedNumber(last')
                  => last'.outcome.value.int = Reply(last').body.f.number]_vars

\* C10 amended: the same, the number being returned if and only if, in
\* addition, the decoded body is an object that has a `number`.
C10_CreateReturnsNumber ==
    [][(/\ Invoked
        /\ last'.op = "create_issue"
        /\ is_configured(options, last'.project)
        /\ tokens[last'.user] # None)
          => /\ CreateRequestOk(last', options[last'.project])
             /\ ReturnedNumber(last')
                  <=> /\ Reply(last').net = "ok"
                      /\ Reply(last').body.t = "obj"
                      /\ "number" \in Reply(last').body.keys
                      /\ Reply(last').status <= 399
             /\ ReturnedNumber(last')
                  => last'.outcome.value.int = Reply(last').body.f.number]_vars

C10_Witness ==
    /\ last.op = "create_issue"
    /\ options[last.project] = "acme/widgets"
    /\ Sent(last)
    /\ last.http[1].url = "https://api.github.com/repos/acme/widgets/issues"
    /\ Reply(last).net = "ok"
    /\ Reply(last).status = 200
    /\ last.outcome = Return(PyInt(42))

====
